---- MODULE Spec2Model ----
(***************************************************************************)
(* A model of src/src/main.ts: the lexer (tokenize), and the two host      *)
(* modes of the entry point (run for a file, repl for interactive input).  *)
(*                                                                         *)
(* Characters are one-character strings, texts are sequences of            *)
(* characters, a token is a record [value, type] whose value is a text.    *)
(***************************************************************************)
EXTENDS Integers, Sequences, FiniteSets, TLC

VARIABLES
    sourceCode,  \* tokenize: the argument, never modified
    src,         \* tokenize: the characters not yet consumed
    tokens,      \* tokenize: the tokens pushed so far
    lexPc,       \* tokenize: "idle" | "scan" | "done" (returned) | "exit"
    exited,      \* the process has been ended by process.exit
    exitCode,    \* the status given to process.exit (0 while running)
    stderr,      \* what console.error has printed
    file,        \* process.argv[2], <<>> standing for undefined
    hostPc,      \* position of the entry point / run / repl
    input,       \* run, repl: the local variable input
    line,        \* repl: the line read last, as the user typed it
    lineNo,      \* repl: number of lines read so far
    events,      \* the calls made for the current file or line, in order
    failure,     \* how the current file or line failed, "none" if it did not
    history,     \* repl: the lines whose cycle completed, [line, events]
    stdout       \* what console.log has printed

lexVars == <<sourceCode, src, tokens, lexPc>>
procVars == <<exited, exitCode, stderr>>
hostVars ==
    <<file, hostPc, input, line, lineNo, events, failure, history, stdout>>
vars == <<sourceCode, src, tokens, lexPc, exited, exitCode, stderr,
          file, hostPc, input, line, lineNo, events, failure, history,
          stdout>>

----------------------------------------------------------------------------
(* Bounds *)

\* longest source text given to tokenize
MaxLen == 3

\* most lines the interactive session is given
MaxLines == 3

----------------------------------------------------------------------------
(* Characters *)

\* String.prototype.charCodeAt(0) on the characters the model uses
CharCode(c) ==
    CASE c = "\t" -> 9   [] c = "\n" -> 10  [] c = "\r" -> 13  [] c = " " -> 32
      [] c = "!" -> 33   [] c = "\"" -> 34  [] c = "#" -> 35   [] c = "%" -> 37
      [] c = "&" -> 38   [] c = "(" -> 40   [] c = ")" -> 41   [] c = "*" -> 42
      [] c = "+" -> 43   [] c = "," -> 44   [] c = "-" -> 45   [] c = "." -> 46
      [] c = "/" -> 47   [] c = "0" -> 48   [] c = "1" -> 49   [] c = "2" -> 50
      [] c = "9" -> 57   [] c = ":" -> 58   [] c = ";" -> 59   [] c = "<" -> 60
      [] c = "=" -> 61   [] c = ">" -> 62   [] c = "@" -> 64   [] c = "A" -> 65
      [] c = "I" -> 73   [] c = "L" -> 76   [] c = "Z" -> 90   [] c = "[" -> 91
      [] c = "]" -> 93   [] c = "_" -> 95   [] c = "a" -> 97   [] c = "b" -> 98
      [] c = "c" -> 99   [] c = "e" -> 101  [] c = "f" -> 102  [] c = "i" -> 105
      [] c = "l" -> 108  [] c = "n" -> 110  [] c = "o" -> 111  [] c = "r" -> 114
      [] c = "s" -> 115  [] c = "t" -> 116  [] c = "x" -> 120  [] c = "z" -> 122
      [] c = "{" -> 123  [] c = "|" -> 124  [] c = "}" -> 125

\* /^[A-Za-z_]+$/.test(c) for a one-character string
isalpha(c) ==
    \/ CharCode(c) >= 65 /\ CharCode(c) <= 90
    \/ CharCode(c) >= 97 /\ CharCode(c) <= 122
    \/ c = "_"

isskippable(c) == c = " " \/ c = "\n" \/ c = "\t" \/ c = "\r"

isint(c) == CharCode(c) >= 48 /\ CharCode(c) <= 57

----------------------------------------------------------------------------
(* Tokens *)

token(value, type) == [value |-> value, type |-> type]

\* the own keys of KEYWORDS
KEYWORDS ==
    { <<<<"l", "e", "t">>, "Let">>,
      <<<<"c", "o", "n", "s", "t">>, "Const">>,
      <<<<"f", "n">>, "Fn">>,
      <<<<"i", "f">>, "If">>,
      <<<<"e", "l", "s", "e">>, "Else">>,
      <<<<"f", "o", "r">>, "For">> }

\* names made of letters and underscores that KEYWORDS inherits from
\* Object.prototype: KEYWORDS[name] is then a function or an object
InheritedKeys ==
    { <<"c", "o", "n", "s", "t", "r", "u", "c", "t", "o", "r">>,
      <<"t", "o", "S", "t", "r", "i", "n", "g">>,
      <<"v", "a", "l", "u", "e", "O", "f">>,
      <<"_", "_", "p", "r", "o", "t", "o", "_", "_">> }

\* typeof KEYWORDS[ident]
TypeofReserved(ident) ==
    IF \E k \in KEYWORDS : k[1] = ident THEN "number"
    ELSE IF ident \in InheritedKeys THEN "function"
    ELSE "undefined"

\* KEYWORDS[ident] when it is a number
Reserved(ident) == (CHOOSE k \in KEYWORDS : k[1] = ident)[2]

EOFToken ==
    [type |-> "EOF", value |-> <<"E", "n", "d", "O", "f", "F", "i", "l", "e">>]

----------------------------------------------------------------------------
(* tokenize: one iteration of the outer loop, per branch.  Each Scan        *)
(* operator takes the non-empty remaining text and gives the token pushed  *)
(* and the text left.                                                      *)

\* the token type of the first switch's cases, "" for its default
SingleCharType(c) ==
    CASE c = "(" -> "OpenParen"      [] c = ")" -> "CloseParen"
      [] c = "{" -> "OpenBrace"      [] c = "}" -> "CloseBrace"
      [] c = "[" -> "OpenBracket"    [] c = "]" -> "CloseBracket"
      [] c = "+" -> "BinaryOperator" [] c = "-" -> "BinaryOperator"
      [] c = "*" -> "BinaryOperator" [] c = "%" -> "BinaryOperator"
      [] c = "/" -> "BinaryOperator"
      [] c = "<" -> "Lesser"         [] c = ">" -> "Greater"
      [] c = "." -> "Dot"            [] c = ";" -> "Semicolon"
      [] c = ":" -> "Colon"          [] c = "," -> "Comma"
      [] c = "|" -> "Bar"
      [] OTHER -> ""

\* which branch the loop body takes on the non-empty text s
Branch(s) ==
    IF SingleCharType(s[1]) # "" THEN "single"
    ELSE IF isint(s[1]) THEN "number"
    ELSE IF s[1] = "=" THEN "equals"
    ELSE IF s[1] = "&" THEN "amp"
    ELSE IF s[1] = "!" THEN "bang"
    ELSE IF s[1] = "\"" THEN "string"
    ELSE IF isalpha(s[1]) THEN "ident"
    ELSE IF isskippable(s[1]) THEN "skip"
    ELSE "unrecognized"

Drop(s, n) == SubSeq(s, n + 1, Len(s))

ScanSingle(s) ==
    [tok |-> token(<<s[1]>>, SingleCharType(s[1])), rest |-> Tail(s)]

\* while (src.length > 0 && isint(src[0])) num += src.shift()
RECURSIVE NumRun(_)
NumRun(s) ==
    IF Len(s) > 0 /\ isint(s[1]) THEN <<s[1]>> \o NumRun(Tail(s)) ELSE <<>>

ScanNumber(s) ==
    LET num == NumRun(s)
    IN  [tok |-> token(num, "Number"), rest |-> Drop(s, Len(num))]

\* ScanEquals with the lookahead forgotten
ScanEqualsNoLookahead(s) ==
    [tok |-> token(<<"=">>, "Equals"), rest |-> Tail(s)]

ScanEquals(s) ==
    LET r == Tail(s)
    IN  IF Len(r) > 0 /\ r[1] = "="
        THEN [tok |-> token(<<"=", "=">>, "EqualsCompare"), rest |-> Tail(r)]
        ELSE [tok |-> token(<<"=">>, "Equals"), rest |-> r]

ScanAmp(s) ==
    LET r == Tail(s)
    IN  IF Len(r) > 0 /\ r[1] = "&"
        THEN [tok |-> token(<<"&", "&">>, "And"), rest |-> Tail(r)]
        ELSE [tok |-> token(<<"&">>, "Ampersand"), rest |-> r]

\* String(src[0]) is "undefined" when src is empty, which is not "="
ScanBang(s) ==
    LET r == Tail(s)
    IN  IF Len(r) > 0 /\ r[1] = "="
        THEN [tok |-> token(<<"!", "=">>, "NotEqualsCompare"), rest |-> Tail(r)]
        ELSE [tok |-> token(<<"!">>, "Exclamation"), rest |-> r]

\* while (src.length > 0 && src[0] !== '"') str += src.shift()
RECURSIVE StrRun(_)
StrRun(s) ==
    IF Len(s) > 0 /\ s[1] # "\"" THEN <<s[1]>> \o StrRun(Tail(s)) ELSE <<>>

\* ScanString with the shift of the closing quote forgotten
ScanStringLeavesQuote(s) ==
    LET r == Tail(s)
        str == StrRun(r)
    IN  [tok |-> token(str, "String"), rest |-> Drop(r, Len(str))]

\* ScanString whose loop also stops at a space
ScanStringStopsAtSpace(s) ==
    LET r == Tail(s)
        n == CHOOSE k \in 0..Len(r) :
                 /\ \A i \in 1..k : r[i] \notin {"\"", " "}
                 /\ k < Len(r) => r[k + 1] \in {"\"", " "}
    IN  [tok |-> token(SubSeq(r, 1, n), "String"), rest |-> Drop(r, n + 1)]

\* ScanString whose token keeps the quotes of the source
ScanStringKeepsQuotes(s) ==
    LET r == Tail(s)
        str == StrRun(r)
        n == IF Len(str) + 2 <= Len(s) THEN Len(str) + 2 ELSE Len(s)
    IN  [tok |-> token(SubSeq(s, 1, n), "String"),
         rest |-> Drop(r, Len(str) + 1)]

\* the shift after the loop removes the closing quote, or nothing at the end
ScanString(s) ==
    LET r == Tail(s)
        str == StrRun(r)
    IN  [tok |-> token(str, "String"), rest |-> Drop(r, Len(str) + 1)]

\* while (src.length > 0 && isalpha(src[0])) ident += src.shift()
RECURSIVE AlphaRun(_)
AlphaRun(s) ==
    IF Len(s) > 0 /\ isalpha(s[1]) THEN <<s[1]>> \o AlphaRun(Tail(s)) ELSE <<>>

\* ScanIdent with the keyword looked up on the start of the run
ScanIdentKeywordPrefix(s) ==
    LET ident == AlphaRun(s)
        hits == {k \in KEYWORDS :
                    Len(k[1]) <= Len(ident) /\ SubSeq(ident, 1, Len(k[1])) = k[1]}
    IN  [tok |-> IF hits # {}
                 THEN token(ident, (CHOOSE k \in hits : TRUE)[2])
                 ELSE token(ident, "Identifier"),
         rest |-> Drop(s, Len(ident))]

ScanIdent(s) ==
    LET ident == AlphaRun(s)
    IN  [tok |-> IF TypeofReserved(ident) = "number"
                 THEN token(ident, Reserved(ident))
                 ELSE token(ident, "Identifier"),
         rest |-> Drop(s, Len(ident))]

\* ScanSkip with the shift forgotten
ScanSkipNoShift(s) == s

ScanSkip(s) == Tail(s)

\* the token and rest of a token-producing branch
Scan(s) ==
    CASE Branch(s) = "single" -> ScanSingle(s)
      [] Branch(s) = "number" -> ScanNumber(s)
      [] Branch(s) = "equals" -> ScanEquals(s)
      [] Branch(s) = "amp" -> ScanAmp(s)
      [] Branch(s) = "bang" -> ScanBang(s)
      [] Branch(s) = "string" -> ScanString(s)
      [] Branch(s) = "ident" -> ScanIdent(s)

\* tokenize as a function of its argument: the tokens returned, or the
\* process exit with what console.error printed
RECURSIVE TokenizeFrom(_, _)
TokenizeFrom(s, acc) ==
    IF Len(s) = 0 THEN [exit |-> FALSE, tokens |-> Append(acc, EOFToken)]
    ELSE IF Branch(s) = "unrecognized"
         THEN [exit |-> TRUE, code |-> 1, printed |-> <<CharCode(s[1]), s[1]>>]
    ELSE IF Branch(s) = "skip" THEN TokenizeFrom(ScanSkip(s), acc)
    ELSE TokenizeFrom(Scan(s).rest, Append(acc, Scan(s).tok))

Tokenize(s) == TokenizeFrom(s, <<>>)

----------------------------------------------------------------------------
(* tokenize as a process: one action per branch of the loop body *)

Alphabet == {"=", "&", "!", "<", ">", "\"", "i", "f", "I", "_", "1", " ", "#"}

Texts(n) == UNION {[1..k -> Alphabet] : k \in 0..n}

HostIdle ==
    /\ file = <<>> /\ hostPc = "idle" /\ input = <<>> /\ line = <<>>
    /\ lineNo = 0
    /\ events = <<>> /\ failure = "none" /\ history = <<>> /\ stdout = <<>>

LexInit ==
    /\ sourceCode \in Texts(MaxLen)
    /\ src = sourceCode
    /\ tokens = <<>>
    /\ lexPc = "scan"
    /\ exited = FALSE /\ exitCode = 0 /\ stderr = <<>>
    /\ HostIdle

Scanning(branch) == lexPc = "scan" /\ Len(src) > 0 /\ Branch(src) = branch

Emit(r) ==
    /\ tokens' = Append(tokens, r.tok)
    /\ src' = r.rest
    /\ UNCHANGED <<sourceCode, lexPc, procVars, hostVars>>

LexSingle == Scanning("single") /\ Emit(ScanSingle(src))

LexNumber == Scanning("number") /\ Emit(ScanNumber(src))

LexEquals == Scanning("equals") /\ Emit(ScanEquals(src))

LexAmp == Scanning("amp") /\ Emit(ScanAmp(src))

LexBang == Scanning("bang") /\ Emit(ScanBang(src))

LexString == Scanning("string") /\ Emit(ScanString(src))

LexIdent == Scanning("ident") /\ Emit(ScanIdent(src))

LexSkip ==
    /\ Scanning("skip")
    /\ src' = ScanSkip(src)
    /\ UNCHANGED <<sourceCode, tokens, lexPc, procVars, hostVars>>

LexUnrecognized ==
    /\ Scanning("unrecognized")
    /\ stderr' = Append(stderr, <<CharCode(src[1]), src[1]>>)
    /\ exited' = TRUE
    /\ exitCode' = 1
    /\ lexPc' = "exit"
    /\ UNCHANGED <<sourceCode, src, tokens, hostVars>>

LexEOF ==
    /\ lexPc = "scan" /\ Len(src) = 0
    /\ tokens' = Append(tokens, EOFToken)
    /\ lexPc' = "done"
    /\ UNCHANGED <<sourceCode, src, procVars, hostVars>>

LexNext ==
    \/ LexSingle \/ LexNumber \/ LexEquals \/ LexAmp \/ LexBang
    \/ LexString \/ LexIdent \/ LexSkip \/ LexUnrecognized \/ LexEOF

\* the loop is synchronous code: it keeps running until it returns or exits
LexSpec == LexInit /\ [][LexNext]_vars /\ WF_vars(LexNext)

----------------------------------------------------------------------------
(* The entry point: run(file) when process.argv[2] is given, repl() when   *)
(* it is not.  transcribe, Parser.produceAST and evaluate are imported     *)
(* from modules that are not part of main.ts: transcribe is a text to text *)
(* function about which nothing is assumed, produceAST tokenizes its       *)
(* argument and then builds the tree or throws a syntax error, evaluate    *)
(* gives a value or throws a runtime error.                                *)

\* String.prototype.endsWith
EndsWith(s, suffix) ==
    /\ Len(s) >= Len(suffix)
    /\ SubSeq(s, Len(s) - Len(suffix) + 1, Len(s)) = suffix

\* String.prototype.includes
Includes(s, part) ==
    \E i \in 0..(Len(s) - Len(part)) : SubSeq(s, i + 1, i + Len(part)) = part

\* the test of run with includes in place of endsWith
RunAcceptsAnywhere(filename) == Includes(filename, <<"c", "b", "s">>)

\* the test of run's first line, negated: run goes on with this file name
RunAccepts(filename) == EndsWith(filename, <<"c", "b", "s">>)

\* the test of repl that ends the session
ReplExits(text) == Len(text) = 0 \/ Includes(text, <<"e", "x", "i", "t">>)

Filenames ==
    { <<"a", ".", "c", "b", "s">>, <<"a", "c", "b", "s">>, <<"c", "b", "s">>,
      <<"a", ".", "t", "x", "t">>, <<"c", "b">>,
      <<"a", ".", "c", "b", "s", "x">> }

\* the lines a user may type
Lines ==
    { <<>>, <<"e", "x", "i", "t">>, <<"1", "e", "x", "i", "t", "1">>,
      <<"e", "x">>, <<"1">>, <<"i", "f">> }

\* the texts a file may hold or transcribe may return
HostTexts == { <<"1">>, <<"i", "f", " ", "1">>, <<"1", "#">>, <<"\"", "#">> }

HostInit ==
    /\ file \in Filenames \cup {<<>>}
    /\ hostPc = "main"
    /\ input = <<>> /\ line = <<>> /\ lineNo = 0
    /\ events = <<>> /\ failure = "none" /\ history = <<>> /\ stdout = <<>>
    /\ exited = FALSE /\ exitCode = 0 /\ stderr = <<>>
    /\ sourceCode = <<>> /\ src = <<>> /\ tokens = <<>> /\ lexPc = "idle"

\* if (file) run(file) else repl(): repl starts by printing its banner
Main ==
    /\ hostPc = "main"
    /\ IF file # <<>>
       THEN hostPc' = "run" /\ stdout' = stdout
       ELSE hostPc' = "repl_read" /\ stdout' = Append(stdout, "Repl v1.0 (Bussin)")
    /\ UNCHANGED <<file, input, line, lineNo, events, failure, history, lexVars, procVars>>

\* what transcribe may return for a text: any text
TranscribeResults(text) == HostTexts

\* how building the tree from accepted tokens may end
ParseOutcomes == {"tree", "syntax"}

\* how produceAST may end on a text: it tokenizes the text first
ProduceAST(text) ==
    IF Tokenize(text).exit THEN {"lexical"} ELSE ParseOutcomes

\* how evaluate may end
EvaluateOutcomes == {"value", "runtime"}

\* a promise of run or repl is rejected: the function is over
Throw(kind) ==
    /\ failure' = kind
    /\ hostPc' = "rejected"
    /\ UNCHANGED <<exited, exitCode, stderr>>

\* input = await transcribe(input)
DoTranscribe(next) ==
    /\ events' = Append(events, "transcribe")
    /\ \E out \in TranscribeResults(input) : input' = out
    /\ hostPc' = next
    /\ UNCHANGED <<file, line, lineNo, failure, history, stdout, lexVars, procVars>>

\* parser.produceAST(input)
DoParse(next) ==
    /\ events' = Append(events, "parse")
    /\ \E outcome \in ProduceAST(input) :
          CASE outcome = "tree" ->
                 hostPc' = next /\ UNCHANGED <<failure, procVars>>
            [] outcome = "lexical" ->
                 \* tokenize has printed the character and ended the process
                 /\ stderr' = Append(stderr, Tokenize(input).printed)
                 /\ exited' = TRUE
                 /\ exitCode' = Tokenize(input).code
                 /\ failure' = "lexical"
                 /\ hostPc' = "exited"
            [] OTHER -> Throw(outcome)
    /\ UNCHANGED <<file, input, line, lineNo, history, stdout, lexVars>>

\* evaluate(program, env): a value or a runtime error
DoEvaluate(next) ==
    /\ events' = Append(events, "evaluate")
    /\ \E outcome \in EvaluateOutcomes :
          IF outcome = "value"
          THEN hostPc' = next /\ UNCHANGED <<failure, procVars>>
          ELSE Throw(outcome)
    /\ UNCHANGED <<file, input, line, lineNo, history, stdout, lexVars>>

(* run *)

\* if (!filename.endsWith("cbs")) return
RunCheck ==
    /\ hostPc = "run"
    /\ hostPc' = IF RunAccepts(file) THEN "run_read" ELSE "returned"
    /\ UNCHANGED <<file, input, line, lineNo, events, failure, history, stdout,
                   lexVars, procVars>>

\* readFileSync(filename, 'utf-8'): the text of the file, or an error
RunRead ==
    /\ hostPc = "run_read"
    /\ events' = Append(events, "read")
    /\ \/ /\ \E text \in HostTexts : input' = text
          /\ hostPc' = "run_transcribe"
          /\ UNCHANGED <<failure, procVars>>
       \/ Throw("io") /\ input' = input
    /\ UNCHANGED <<file, line, lineNo, history, stdout, lexVars>>

RunTranscribe == hostPc = "run_transcribe" /\ DoTranscribe("run_parse")

RunParse == hostPc = "run_parse" /\ DoParse("run_evaluate")

RunEvaluate == hostPc = "run_evaluate" /\ DoEvaluate("returned")

(* repl *)

\* await rl.question("> ")
ReplRead ==
    /\ hostPc = "repl_read"
    /\ lineNo < MaxLines
    /\ \E typed \in Lines : input' = typed /\ line' = typed
    /\ lineNo' = lineNo + 1
    /\ events' = <<"read">>
    /\ hostPc' = "repl_check"
    /\ UNCHANGED <<file, failure, history, stdout, lexVars, procVars>>

\* if (!input || input.includes("exit")) process.exit(1)
ReplCheck ==
    /\ hostPc = "repl_check"
    /\ IF ReplExits(input)
       THEN exited' = TRUE /\ exitCode' = 1 /\ hostPc' = "exited"
       ELSE hostPc' = "repl_transcribe" /\ UNCHANGED <<exited, exitCode>>
    /\ UNCHANGED <<file, input, line, lineNo, events, failure, history, stdout,
                   stderr, lexVars>>

ReplTranscribe == hostPc = "repl_transcribe" /\ DoTranscribe("repl_parse")

ReplParse == hostPc = "repl_parse" /\ DoParse("repl_evaluate")

ReplEvaluate == hostPc = "repl_evaluate" /\ DoEvaluate("repl_print")

\* console.log(result), and back to the top of the loop
ReplPrint ==
    /\ hostPc = "repl_print"
    /\ events' = Append(events, "print")
    /\ stdout' = Append(stdout, "result")
    /\ history' = Append(history, [line |-> line, events |-> events'])
    /\ hostPc' = "repl_read"
    /\ UNCHANGED <<file, input, line, lineNo, failure, lexVars, procVars>>

\* nothing in main.ts catches a rejected promise of run or repl: the
\* runtime prints the error and, depending on its version and flags, ends
\* the process with status 1 or leaves it running with the function over
UnhandledRejection ==
    /\ hostPc = "rejected"
    /\ stderr' = Append(stderr, <<failure>>)
    /\ \/ exited' = TRUE /\ exitCode' = 1 /\ hostPc' = "exited"
       \/ hostPc' = "over" /\ UNCHANGED <<exited, exitCode>>
    /\ UNCHANGED <<file, input, line, lineNo, events, failure, history, stdout,
                   lexVars>>

HostNext ==
    \/ Main
    \/ RunCheck \/ RunRead \/ RunTranscribe \/ RunParse \/ RunEvaluate
    \/ ReplRead \/ ReplCheck \/ ReplTranscribe \/ ReplParse \/ ReplEvaluate
    \/ ReplPrint
    \/ UnhandledRejection

HostSpec == HostInit /\ [][HostNext]_vars

----------------------------------------------------------------------------
(* Vocabulary of the claims about tokenize, stated on texts alone *)

Quote == "\""

OperatorChars ==
    {"(", ")", "{", "}", "[", "]", "+", "-", "*", "%", "/", "<", ">", ".",
     ";", ":", ",", "|", "=", "&", "!"}

DigitChars == {"0", "1", "2", "9"}

LetterChars ==
    {"A", "I", "L", "Z", "a", "b", "c", "e", "f", "i", "l", "n", "o", "r",
     "s", "t", "x", "z", "_"}

WhitespaceChars == {" ", "\t", "\n", "\r"}

RecognizedChars ==
    OperatorChars \cup DigitChars \cup LetterChars \cup WhitespaceChars
        \cup {Quote}

OnlyRecognized(s) == \A i \in 1..Len(s) : s[i] \in RecognizedChars

Types(toks) == [i \in 1..Len(toks) |-> toks[i].type]

CountType(toks, ty) == Cardinality({i \in 1..Len(toks) : toks[i].type = ty})

\* number of characters tokenize has consumed
Offset == Len(sourceCode) - Len(src)

\* the loop is at the top of its body with c as the next character
AtChar(c) == lexPc = "scan" /\ Len(src) > 0 /\ src[1] = c

Pushes(value, type, n) ==
    /\ tokens' = Append(tokens, [value |-> value, type |-> type])
    /\ src' = SubSeq(src, n + 1, Len(src))
    /\ lexPc' = "scan"
    /\ exited' = exited
    /\ stderr' = stderr

NextIs(c) == Len(src) >= 2 /\ src[2] = c

----------------------------------------------------------------------------
(* C1: for every source text made only of recognized characters, tokenize  *)
(* terminates (it returns, it does not exit), and what it returns holds    *)
(* exactly one EOF token, which is its last element.  Termination is       *)
(* stated by a variant: while it scans a step is always possible, and      *)
(* every step shortens the text left or is the return on the empty text,   *)
(* so tokenize returns after at most Len(sourceCode) + 1 steps.            *)

OneEOFLast ==
    /\ Len(tokens) >= 1
    /\ tokens[Len(tokens)] = EOFToken
    /\ CountType(tokens, "EOF") = 1

\* while it scans, tokenize can always take a step that changes its state
C1_CanStep == lexPc = "scan" => ENABLED <<LexNext>>_vars

\* every step consumes at least one character, or is the return at the end
C1_Decreases ==
    lexPc = "scan" =>
        \/ lexPc' = "scan" /\ Len(src') < Len(src)
        \/ lexPc' = "done" /\ Len(src) = 0 /\ src' = src

\* C1: on recognized characters tokenize never exits, always can step, each
\* step consumes input, and the returned tokens end in the only EOF token
C1_TerminatesWithOneEOF ==
    /\ [](OnlyRecognized(sourceCode) =>
            /\ lexPc # "exit"
            /\ C1_CanStep
            /\ lexPc = "done" => OneEOFLast)
    /\ [][OnlyRecognized(sourceCode) => C1_Decreases]_vars

C1_Witness ==
    /\ lexPc = "done"
    /\ OnlyRecognized(sourceCode)
    /\ Len(sourceCode) = MaxLen
    /\ Len(tokens) = MaxLen + 1
    /\ OneEOFLast

----------------------------------------------------------------------------
(* C7: at every scan position, '=' followed by '=' gives one EqualsCompare *)
(* token, otherwise one Equals token; '&' followed by '&' one And token,   *)
(* otherwise one Ampersand token; '!' followed by '=' one NotEqualsCompare *)
(* token, otherwise one Exclamation token, also at the end of the input;   *)
(* '<' and '>' always give a one-character Lesser / Greater token.         *)

C7_Step ==
    /\ AtChar("=") =>
          IF NextIs("=") THEN Pushes(<<"=", "=">>, "EqualsCompare", 2)
          ELSE Pushes(<<"=">>, "Equals", 1)
    /\ AtChar("&") =>
          IF NextIs("&") THEN Pushes(<<"&", "&">>, "And", 2)
          ELSE Pushes(<<"&">>, "Ampersand", 1)
    /\ AtChar("!") =>
          IF NextIs("=") THEN Pushes(<<"!", "=">>, "NotEqualsCompare", 2)
          ELSE Pushes(<<"!">>, "Exclamation", 1)
    /\ AtChar("<") => Pushes(<<"<">>, "Lesser", 1)
    /\ AtChar(">") => Pushes(<<">">>, "Greater", 1)

\* C7: every step at '=', '&', '!', '<', '>' pushes the token the lookahead
\* of one character decides
C7_TwoCharOperators == [][C7_Step]_vars

C7_Witness ==
    /\ lexPc = "done"
    /\ sourceCode = <<">", "=", "!">>
    /\ Types(tokens) = <<"Greater", "Equals", "Exclamation", "EOF">>

----------------------------------------------------------------------------
(* C8: every maximal run of letters and underscores met outside a string   *)
(* literal becomes exactly one token whose text is the whole run, tagged   *)
(* with the keyword the run is exactly equal to, and Identifier when it is *)
(* equal to none.                                                          *)

KeywordTag(run) ==
    CASE run = <<"l", "e", "t">> -> "Let"
      [] run = <<"c", "o", "n", "s", "t">> -> "Const"
      [] run = <<"f", "n">> -> "Fn"
      [] run = <<"i", "f">> -> "If"
      [] run = <<"e", "l", "s", "e">> -> "Else"
      [] run = <<"f", "o", "r">> -> "For"
      [] OTHER -> "Identifier"

\* length of the longest prefix of s made of letters and underscores
LetterRunLen(s) ==
    CHOOSE n \in 0..Len(s) :
        /\ \A i \in 1..n : s[i] \in LetterChars
        /\ n < Len(s) => s[n + 1] \notin LetterChars

\* a scan position on a letter is the start of a maximal run
C8_AtRunStart ==
    (lexPc = "scan" /\ Len(src) > 0 /\ src[1] \in LetterChars /\ Offset > 0)
        => sourceCode[Offset] \notin LetterChars

C8_Step ==
    (lexPc = "scan" /\ Len(src) > 0 /\ src[1] \in LetterChars) =>
        LET n == LetterRunLen(src)
            run == SubSeq(src, 1, n)
        IN  Pushes(run, KeywordTag(run), n)

\* C8: a maximal run of letters and underscores becomes one token, a
\* keyword exactly when the whole run is one
C8_IdentifiersAndKeywords == []C8_AtRunStart /\ [][C8_Step]_vars

C8_Witness ==
    /\ lexPc = "done"
    /\ sourceCode = <<"i", "f", "_">>
    /\ tokens = <<[value |-> <<"i", "f", "_">>, type |-> "Identifier"], EOFToken>>

----------------------------------------------------------------------------
(* C9: for an opening double quote that has a later closing double quote,  *)
(* tokenize pushes exactly one String token whose text is the characters   *)
(* between the two quotes, unchanged, whatever they are, raises no error,  *)
(* and resumes right after the closing quote.                              *)

\* index in s of the first double quote after position 1, 0 when none
ClosingQuote(s) ==
    IF \E j \in 2..Len(s) : s[j] = Quote
    THEN CHOOSE j \in 2..Len(s) :
             s[j] = Quote /\ \A k \in 2..(j - 1) : s[k] # Quote
    ELSE 0

C9_Step ==
    (AtChar(Quote) /\ ClosingQuote(src) > 0) =>
        LET j == ClosingQuote(src)
        IN  Pushes(SubSeq(src, 2, j - 1), "String", j)

\* C9: a closed string literal becomes one String token holding the text
\* between its quotes, and scanning resumes after the closing quote
C9_ClosedString == [][C9_Step]_vars

C9_Witness ==
    /\ lexPc = "done"
    /\ ~exited
    /\ sourceCode = <<Quote, "#", Quote>>
    /\ tokens = <<[value |-> <<"#">>, type |-> "String"], EOFToken>>

----------------------------------------------------------------------------
(* C10: an opening double quote with no closing double quote after it is   *)
(* not an error: every remaining character goes into one String token,     *)
(* tokenize returns that token followed directly by EOF, and the tokens    *)
(* are those of the same text with a closing quote appended.               *)

QuoteCount(s) == Cardinality({i \in 1..Len(s) : s[i] = Quote})

C10_Step ==
    (AtChar(Quote) /\ ClosingQuote(src) = 0) =>
        /\ Pushes(Tail(src), "String", Len(src))
        /\ LET closed == Tokenize(sourceCode \o <<Quote>>)
           IN  /\ ~closed.exit
               /\ closed.tokens = Append(tokens', EOFToken)

C10_Returned ==
    (lexPc = "done" /\ QuoteCount(sourceCode) % 2 = 1) =>
        /\ Len(tokens) >= 2
        /\ tokens[Len(tokens) - 1].type = "String"
        /\ tokens[Len(tokens)] = EOFToken
        /\ ~exited

\* C10: an unterminated string literal takes the rest of the input into one
\* String token, followed by EOF, as if the closing quote were there
C10_UnterminatedString == []C10_Returned /\ [][C10_Step]_vars

C10_Witness ==
    /\ lexPc = "done"
    /\ ~exited
    /\ sourceCode = <<Quote, "#", " ">>
    /\ tokens = <<[value |-> <<"#", " ">>, type |-> "String"], EOFToken>>

----------------------------------------------------------------------------
(* C2: round trip.  As claimed: for every text tokenize accepts, the       *)
(* concatenation of the texts of the returned tokens, EOF left out, is     *)
(* accepted too and gives the same sequence of kinds.                      *)

RECURSIVE RawText(_)
RawText(toks) ==
    IF Len(toks) = 0 THEN <<>>
    ELSE IF toks[1].type = "EOF" THEN RawText(Tail(toks))
    ELSE toks[1].value \o RawText(Tail(toks))

SameKinds(text, toks) ==
    LET again == Tokenize(text)
    IN  ~again.exit /\ Types(again.tokens) = Types(toks)

\* C2 as claimed: re-lexing the concatenated token texts gives the same kinds
C2_RoundTripAsClaimed == lexPc = "done" => SameKinds(RawText(tokens), tokens)

(* C2 as amended: the texts are joined with one space after each, and the  *)
(* text of a String token is put back between double quotes; the result    *)
(* is accepted and gives the same sequence of kinds.                       *)

RECURSIVE QuotedText(_)
QuotedText(toks) ==
    IF Len(toks) = 0 THEN <<>>
    ELSE IF toks[1].type = "EOF" THEN QuotedText(Tail(toks))
    ELSE (IF toks[1].type = "String"
          THEN <<Quote>> \o toks[1].value \o <<Quote>>
          ELSE toks[1].value) \o <<" ">> \o QuotedText(Tail(toks))

\* C2 as amended: re-lexing the token texts, strings re-quoted and each
\* followed by a space, gives the same kinds
C2_RoundTripSeparated == lexPc = "done" => SameKinds(QuotedText(tokens), tokens)

C2_Witness ==
    /\ lexPc = "done"
    /\ Len(tokens) >= 3
    /\ \E i \in 1..Len(tokens) : tokens[i].type = "String"
    /\ ~SameKinds(RawText(tokens), tokens)
    /\ SameKinds(QuotedText(tokens), tokens)

----------------------------------------------------------------------------
(* C3: when tokenize meets a character of no recognized class outside a    *)
(* string literal, it does not end the process: the caller gets control    *)
(* back with an error result.                                              *)

UnrecognizedMet == Len(stderr) > 0

\* C3: an unrecognized character gives the caller an error result and leaves
\* the process running
C3_ErrorResultNotExit ==
    UnrecognizedMet => ~exited /\ exitCode = 0 /\ lexPc = "done"

----------------------------------------------------------------------------
(* Vocabulary of the claims about the host *)

Interactive == file = <<>>

SessionOver == hostPc \in {"exited", "rejected", "over"}

ExitKeyword == <<"e", "x", "i", "t">>

ContainsExit(text) ==
    \E i \in 1..Len(text) :
        /\ i + 3 <= Len(text)
        /\ <<text[i], text[i + 1], text[i + 2], text[i + 3]>> = ExitKeyword

EndsSession(text) == text = <<>> \/ ContainsExit(text)

ReplCycle == <<"read", "transcribe", "parse", "evaluate", "print">>

RunPipeline == <<"read", "transcribe", "parse", "evaluate">>

IsPrefix(s, t) == Len(s) <= Len(t) /\ s = SubSeq(t, 1, Len(s))

HasExtension(name) ==
    /\ Len(name) >= 3
    /\ <<name[Len(name) - 2], name[Len(name) - 1], name[Len(name)]>>
           = <<"c", "b", "s">>

----------------------------------------------------------------------------
(* C4: the interactive loop runs the whole cycle read, transcribe, parse,  *)
(* evaluate, print for every line that is non-empty and does not contain   *)
(* the exit keyword, and ends only on the first line that is empty or      *)
(* contains it, with a non-zero status and without transcribing, parsing   *)
(* or evaluating that line.                                                *)

\* C4: every line that does not end the session goes through the whole
\* cycle, and the session ends only on an empty or exit line, status non-zero
C4_ReplCycle ==
    Interactive =>
        /\ \A i \in 1..Len(history) :
              /\ ~EndsSession(history[i].line)
              /\ history[i].events = ReplCycle
        /\ hostPc = "repl_read" => Len(history) = lineNo
        /\ SessionOver =>
              /\ EndsSession(line)
              /\ events = <<"read">>
              /\ exited /\ exitCode # 0
              /\ Len(history) = lineNo - 1

----------------------------------------------------------------------------
(* C5: in interactive mode a line that fails in lexing, parsing or         *)
(* evaluation does not end the session: the loop goes on to read the next  *)
(* line.                                                                   *)

\* C5: a failing line never ends the interactive session
C5_FailureKeepsSession ==
    (Interactive /\ failure # "none") => ~SessionOver /\ ~exited

----------------------------------------------------------------------------
(* C6.  As claimed: run on a file without the extension raises no error    *)
(* and reads, transcribes, parses and evaluates nothing; run on a file     *)
(* with the extension ends having read, transcribed, parsed and evaluated  *)
(* it exactly once each, in that order.                                    *)

RunOver == hostPc \in {"returned", "exited", "over"}

C6_Ignored ==
    (~Interactive /\ ~HasExtension(file)) =>
        /\ events = <<>>
        /\ failure = "none"
        /\ ~exited
        /\ stderr = <<>>
        /\ hostPc \in {"main", "run", "returned"}

\* C6 as claimed: a file without the extension is ignored, a file with it
\* has gone through all four stages once, in order, when run is over
C6_RunAsClaimed ==
    /\ C6_Ignored
    /\ (~Interactive /\ HasExtension(file) /\ RunOver) => events = RunPipeline

(* C6 as amended: on a file with the extension the four stages run in that *)
(* order, each at most once and each only after the stages before it       *)
(* completed without error; all four have run when run returns.            *)

\* C6 as amended: a file without the extension is ignored; with it the stages
\* run in order, at most once, none after a failure, all four on return
C6_RunInOrder ==
    /\ C6_Ignored
    /\ (~Interactive /\ HasExtension(file)) =>
          /\ IsPrefix(events, RunPipeline)
          /\ hostPc = "returned" => events = RunPipeline /\ failure = "none"
          /\ failure # "none" => SessionOver
          /\ (RunOver /\ failure = "none") => events = RunPipeline

C6_Witness ==
    /\ ~Interactive
    /\ HasExtension(file)
    /\ hostPc = "returned"
    /\ events = RunPipeline
    /\ failure = "none"

====
